---- MODULE Spec2Model ----
(***************************************************************************)
(* A model of the schema compiler of build.go: build, flattenedFields,     *)
(* buildNode, buildChild and buildField.                                   *)
(*                                                                         *)
(* The recursion buildNode -> buildChild -> buildNode is unfolded into an  *)
(* explicit call stack.  The schema is the input: the flattened fields of  *)
(* a structure are drawn one by one, in declaration order, from small sets *)
(* of resolved tags, and a structure's field list may end at any point.    *)
(*                                                                         *)
(* Spec is one run of build() over every schema within the bounds;         *)
(* SpecFlags and SpecArgs are Spec over the schemas of flags and of         *)
(* positionals, whose state spaces stay small as the bounds grow.          *)
(* SpecFlatten is flattenedFields() run over one structure, possibly       *)
(* several times, with its optional references.  The Tag Resolver, the     *)
(* mapper registry and the group registry are outside the model: a tag is  *)
(* an input, already resolved.                                             *)
(***************************************************************************)
EXTENDS Integers, Sequences, FiniteSets, TLC

\* Bounds of the model.
MaxFields == 4       \* flattened fields consumed by one run of build()
MaxDepth == 3        \* nesting depth of nodes, the root being at depth 1
MaxFlatFields == 3   \* fields of the structure given to flattenedFields()
MaxCompiles == 2     \* runs of flattenedFields() over the same structure

Names == {"port", "name"}
NoShort == ""                  \* tag.Short == 0
Shorts == {NoShort, "p"}
Defaults == {"", "1", "withargs"}

VARIABLES
    pc,          \* "init", "building", "done", "failed" ("idle" under SpecFlatten)
    extraFlags,  \* k.extraFlags(): the injected global flags
    seenFlags,   \* the shared map[string]bool, as the set of its keys
    nodes,       \* the allocated *Node values, by identity 1..Len(nodes)
    stack,       \* the active buildNode invocations, root first
    err,         \* the error build() returns
    nfields,     \* number of flattened fields consumed so far
    fields,      \* SpecFlatten: the structure's fields (their tags and kinds)
    slots,       \* SpecFlatten: what each field's storage refers to
    slots0,      \* SpecFlatten: slots as they were before the current run
    nextInst,    \* SpecFlatten: the next instance reflect.New allocates
    fidx,        \* SpecFlatten: the loop index i of flattenedFields
    out,         \* SpecFlatten: the flattened fields emitted by the current run
    runs         \* SpecFlatten: completed runs

buildVars == <<pc, extraFlags, seenFlags, nodes, stack, err, nfields>>
flatVars == <<fields, slots, slots0, nextInst, fidx, out, runs>>
vars == <<pc, extraFlags, seenFlags, nodes, stack, err, nfields,
          fields, slots, slots0, nextInst, fidx, out, runs>>

-----------------------------------------------------------------------------
\* Tags, values, flags and nodes.

EmptyTag ==
    [cmd |-> FALSE, arg |-> FALSE, struct |-> FALSE, mapper |-> FALSE,
     name |-> "", short |-> NoShort, required |-> FALSE, optional |-> FALSE,
     dflt |-> ""]

\* The resolved tags of the fields a schema may declare.  name is the public
\* name buildNode computes; struct says the field's storage is a structure
\* no registered mapper claims; mapper says the registry has a mapper for it.
FlagTags ==
    {[EmptyTag EXCEPT !.mapper = TRUE, !.name = n, !.short = s] :
        n \in Names, s \in Shorts}
ArgTags ==
    {[EmptyTag EXCEPT !.mapper = TRUE, !.arg = TRUE, !.name = n, !.optional = o] :
        n \in Names, o \in BOOLEAN}
UnsupportedTags == {[EmptyTag EXCEPT !.name = "name"]}
CmdTags ==
    {[EmptyTag EXCEPT !.cmd = TRUE, !.struct = TRUE, !.name = n, !.dflt = d] :
        n \in Names, d \in Defaults}
BranchArgTags ==
    {[EmptyTag EXCEPT !.arg = TRUE, !.struct = TRUE, !.name = n, !.dflt = d] :
        n \in Names, d \in {"", "1"}}
LeafTags == FlagTags \cup ArgTags \cup UnsupportedTags
BranchTags == CmdTags \cup BranchArgTags

ExtraFlagChoices == {<< >>, <<[name |-> "port", short |-> "p"]>>}

\* An error: its message, the node being built, and the message's argument
\* (the field's name, or the flag key a duplicate error names).
NoErr == [msg |-> "", node |-> 0, arg |-> ""]

\* The classification of buildNode: a nested structure tagged cmd or arg.
IsBranch(tag) == tag.struct /\ (tag.cmd \/ tag.arg)

NodeType(tag) == IF tag.arg THEN "ArgumentNode" ELSE "CommandNode"

NewNode(typ, seen) ==
    [typ |-> typ, name |-> "", tag |-> EmptyTag, parent |-> 0,
     flags |-> << >>, positional |-> << >>, children |-> << >>,
     defaultCmd |-> 0, argument |-> << >>,
     built |-> FALSE, collected |-> << >>,
     startSeen |-> seen, endSeen |-> {}]

\* Flags are optional by default, and args are required by default.
Required(tag) ==
    (~tag.arg /\ tag.required) \/ (tag.arg /\ ~tag.optional)

NewValue(tag) ==
    [name |-> tag.name, required |-> Required(tag), position |-> 0]

NewFlag(tag) == [name |-> tag.name, short |-> tag.short]

LongKey(name) == "--" \o name
ShortKey(short) == "-" \o short

\* The keys build() puts into seenFlags before the root is built.
SeedSeenFlags(extra) == {extra[i].name : i \in DOMAIN extra}

FlagKeys(f) ==
    {LongKey(f.name)} \cup (IF f.short # NoShort THEN {ShortKey(f.short)} ELSE {})

\* Unsee, forgetting the short forms.
UnseeLongOnly(seen, flags) ==
    seen \ {LongKey(flags[i].name) : i \in DOMAIN flags}

\* Unsee, deleting the bare names instead of the "--" keys.
UnseeBareNames(seen, flags) ==
    seen \ ({flags[i].name : i \in DOMAIN flags}
            \cup {flags[i].short : i \in DOMAIN flags})

\* "Unsee" flags.
Unsee(seen, flags) ==
    seen \ UNION {FlagKeys(flags[i]) : i \in DOMAIN flags}

\* Last, with "last" initialized false.
LastInitFalse(pos, i) == IF i = 1 THEN FALSE ELSE pos[i - 1].required

\* The scan of buildNode over node.Positional: "last" at index i.
Last(pos, i) == IF i = 1 THEN TRUE ELSE pos[i - 1].required

OrderingError(pos) ==
    \E i \in DOMAIN pos : ~Last(pos, i) /\ pos[i].required

AssignPositions(pos) ==
    [i \in DOMAIN pos |-> [pos[i] EXCEPT !.position = i - 1]]

\* The mix check, off by one on the positionals.
MixesWithSecondPositional(node) ==
    Len(node.positional) > 1 /\ Len(node.children) > 0

MixesBranchesAndPositionals(node) ==
    Len(node.positional) > 0 /\ Len(node.children) > 0

Top == stack[Len(stack)].node

Fail(msg, n, arg) ==
    /\ pc' = "failed"
    /\ err' = [msg |-> msg, node |-> n, arg |-> arg]


-----------------------------------------------------------------------------
\* buildChild, after the child's buildNode has returned.

MsgNoPositional == "positional branch must have at least one child positional argument"
MsgFirstName == "first field in positional branch must have the same name as the parent field"
MsgTwoDefaults == "can't have more than one default command"
MsgDefaultArgs == "default command must not have subcommands or arguments"
MsgMix == "can't mix positional arguments and branching arguments"
MsgOrder == "can not be required after an optional"
MsgDupLong == "duplicate flag"
MsgDupShort == "duplicate short flag"
MsgUnsupported == "unsupported field type"
MsgRoot == "expected a pointer to a struct"

\* The two structural checks of a branching argument.
BranchArgError(child, name) ==
    IF Len(child.positional) = 0 THEN MsgNoPositional
    ELSE IF child.positional[1].name # name THEN MsgFirstName
    ELSE ""

\* PromoteArgument, without the reslice of child.Positional.
PromoteWithoutRemoving(child) ==
    [child EXCEPT !.argument = <<child.positional[1]>>]

\* child.Argument = child.Positional[0]; child.Positional = child.Positional[1:]
PromoteArgument(child) ==
    [child EXCEPT !.argument = <<child.positional[1]>>,
                  !.positional = Tail(child.positional)]

\* DefaultCmdError, without the check of node.DefaultCmd.
DefaultCmdErrorLastWins(parent, child, tag) ==
    IF tag.dflt # "withargs"
       /\ (Len(child.children) > 0 \/ Len(child.positional) > 0)
    THEN MsgDefaultArgs
    ELSE ""

\* The two structural checks of a default command.
DefaultCmdError(parent, child, tag) ==
    IF parent.defaultCmd # 0 THEN MsgTwoDefaults
    ELSE IF tag.dflt # "withargs"
            /\ (Len(child.children) > 0 \/ Len(child.positional) > 0)
         THEN MsgDefaultArgs
    ELSE ""

\* The branch on tag.Arg / tag.Default: the error, and parent and child after it.
BranchOrDefault(parent, child, cid, tag) ==
    IF tag.arg THEN
        IF BranchArgError(child, tag.name) # ""
        THEN [msg |-> BranchArgError(child, tag.name), parent |-> parent, child |-> child]
        ELSE [msg |-> "", parent |-> parent, child |-> PromoteArgument(child)]
    ELSE IF tag.dflt # "" THEN
        IF DefaultCmdError(parent, child, tag) # ""
        THEN [msg |-> DefaultCmdError(parent, child, tag), parent |-> parent, child |-> child]
        ELSE [msg |-> "", parent |-> [parent EXCEPT !.defaultCmd = cid], child |-> child]
    ELSE [msg |-> "", parent |-> parent, child |-> child]

\* buildChild from "child.Name = name" to its return.
AttachChild(parent, pid, child, cid, tag) ==
    LET named == [child EXCEPT !.name = tag.name, !.tag = tag, !.parent = pid]
        r == BranchOrDefault(parent, named, cid, tag)
    IN  IF r.msg # "" THEN r
        ELSE [msg |-> IF MixesBranchesAndPositionals(r.child) THEN MsgMix ELSE "",
              parent |-> [r.parent EXCEPT !.children = Append(@, cid)],
              child |-> r.child]

\* buildNode from "Unsee flags" to its return: the node with its positions
\* assigned, or as it was when the ordering error was found.
Finished(node, seen) ==
    [node EXCEPT !.collected = node.positional,
                 !.positional = IF OrderingError(node.positional) THEN @
                                ELSE AssignPositions(@),
                 !.built = ~OrderingError(node.positional),
                 !.endSeen = seen]

-----------------------------------------------------------------------------
\* One run of build().

Init ==
    /\ pc = "init"
    /\ extraFlags \in ExtraFlagChoices
    /\ seenFlags = {}
    /\ nodes = << >>
    /\ stack = << >>
    /\ err = NoErr
    /\ nfields = 0
    /\ fields = << >> /\ slots = << >> /\ slots0 = << >>
    /\ nextInst = 0 /\ fidx = 0 /\ out = << >> /\ runs = 0

\* build() up to its call of buildNode, and buildNode up to its field loop.
build(isStructPtr) ==
    /\ pc = "init"
    /\ IF ~isStructPtr
       THEN /\ Fail(MsgRoot, 0, "")
            /\ UNCHANGED <<seenFlags, nodes, stack>>
       ELSE /\ pc' = "building"
            /\ seenFlags' = SeedSeenFlags(extraFlags)
            /\ nodes' = <<NewNode("ApplicationNode", SeedSeenFlags(extraFlags))>>
            /\ stack' = <<[node |-> 1, tag |-> EmptyTag]>>
            /\ UNCHANGED err
    /\ UNCHANGED <<extraFlags, nfields>>
    /\ UNCHANGED flatVars

\* A field matched by k.ignoreFields: continue MAIN.
ignoreField ==
    /\ pc = "building"
    /\ nfields < MaxFields
    /\ nfields' = nfields + 1
    /\ UNCHANGED <<pc, extraFlags, seenFlags, nodes, stack, err>>
    /\ UNCHANGED flatVars

\* One leaf field of the node being built: buildField.
buildField(tag) ==
    /\ pc = "building"
    /\ nfields < MaxFields
    /\ ~IsBranch(tag)
    /\ nfields' = nfields + 1
    /\ LET n == Top IN
       IF ~tag.mapper THEN
            /\ Fail(MsgUnsupported, n, tag.name)
            /\ UNCHANGED <<seenFlags, nodes>>
       ELSE IF tag.arg THEN
            /\ nodes' = [nodes EXCEPT ![n].positional = Append(@, NewValue(tag))]
            /\ UNCHANGED <<pc, err, seenFlags>>
       ELSE IF LongKey(tag.name) \in seenFlags THEN
            /\ Fail(MsgDupLong, n, LongKey(tag.name))
            /\ UNCHANGED <<seenFlags, nodes>>
       ELSE IF tag.short # NoShort /\ ShortKey(tag.short) \in seenFlags THEN
            /\ Fail(MsgDupShort, n, ShortKey(tag.short))
            /\ seenFlags' = seenFlags \cup {LongKey(tag.name)}
            /\ UNCHANGED nodes
       ELSE
            /\ seenFlags' = seenFlags \cup FlagKeys(NewFlag(tag))
            /\ nodes' = [nodes EXCEPT ![n].flags = Append(@, NewFlag(tag))]
            /\ UNCHANGED <<pc, err>>
    /\ UNCHANGED <<extraFlags, stack>>
    /\ UNCHANGED flatVars

\* One branch field: buildChild calls buildNode for the field's structure.
buildChildCall(tag) ==
    /\ pc = "building"
    /\ nfields < MaxFields
    /\ Len(stack) < MaxDepth
    /\ IsBranch(tag)
    /\ nfields' = nfields + 1
    /\ nodes' = Append(nodes, NewNode(NodeType(tag), seenFlags))
    /\ stack' = Append(stack, [node |-> Len(nodes) + 1, tag |-> tag])
    /\ UNCHANGED <<pc, extraFlags, seenFlags, err>>
    /\ UNCHANGED flatVars

\* The child's field list is exhausted: buildNode finishes the child and
\* buildChild attaches it to its parent.
buildChildReturn ==
    /\ pc = "building"
    /\ Len(stack) > 1
    /\ LET cid == Top
           pid == stack[Len(stack) - 1].node
           tag == stack[Len(stack)].tag
           seen == Unsee(seenFlags, nodes[cid].flags)
           child == Finished(nodes[cid], seen)
           r == AttachChild(nodes[pid], pid, child, cid, tag)
       IN  /\ seenFlags' = seen
           /\ IF ~child.built THEN
                  /\ Fail(MsgOrder, cid, "")
                  /\ nodes' = [nodes EXCEPT ![cid] = child]
                  /\ UNCHANGED stack
              ELSE IF r.msg # "" THEN
                  /\ Fail(r.msg, pid, tag.name)
                  /\ nodes' = [nodes EXCEPT ![cid] = r.child, ![pid] = r.parent]
                  /\ UNCHANGED stack
              ELSE
                  /\ nodes' = [nodes EXCEPT ![cid] = r.child, ![pid] = r.parent]
                  /\ stack' = SubSeq(stack, 1, Len(stack) - 1)
                  /\ UNCHANGED <<pc, err>>
    /\ UNCHANGED <<extraFlags, nfields>>
    /\ UNCHANGED flatVars

\* The root's field list is exhausted: buildNode finishes the root and
\* build() assembles the application.
buildReturn ==
    /\ pc = "building"
    /\ Len(stack) = 1
    /\ LET seen == Unsee(seenFlags, nodes[1].flags)
           root == Finished(nodes[1], seen)
       IN  /\ seenFlags' = seen
           /\ IF ~root.built THEN
                  /\ Fail(MsgOrder, 1, "")
                  /\ nodes' = [nodes EXCEPT ![1] = root]
                  /\ UNCHANGED stack
              ELSE IF MixesBranchesAndPositionals(root) THEN
                  /\ Fail(MsgMix, 1, "")
                  /\ nodes' = [nodes EXCEPT ![1] = root]
                  /\ UNCHANGED stack
              ELSE
                  /\ pc' = "done"
                  /\ nodes' = [nodes EXCEPT ![1] =
                                  [root EXCEPT !.flags = extraFlags \o root.flags]]
                  /\ stack' = << >>
                  /\ UNCHANGED err
    /\ UNCHANGED <<extraFlags, nfields>>
    /\ UNCHANGED flatVars

\* One step of build() over a schema whose leaf fields carry tags of
\* leafTags and whose branch fields carry tags of branchTags.
Step(leafTags, branchTags) ==
    \/ \E ok \in BOOLEAN : build(ok)
    \/ ignoreField
    \/ \E tag \in leafTags : buildField(tag)
    \/ \E tag \in branchTags : buildChildCall(tag)
    \/ buildChildReturn
    \/ buildReturn

\* Every schema over LeafTags and BranchTags.
Next == Step(LeafTags, BranchTags)
Spec == Init /\ [][Next]_vars

\* The schemas of flags, of plain commands and of branching arguments with
\* their required positional "name": the flag registration set.
FlagSchemaLeaves ==
    FlagTags \cup UnsupportedTags
    \cup {t \in ArgTags : t.name = "name" /\ ~t.optional}
FlagSchemaBranches ==
    {t \in CmdTags : t.dflt = ""}
    \cup {t \in BranchArgTags : t.name = "name" /\ t.dflt = ""}
NextFlags == Step(FlagSchemaLeaves, FlagSchemaBranches)
SpecFlags == Init /\ [][NextFlags]_vars

\* The schemas of positionals, commands and branching arguments.
ArgSchemaLeaves == ArgTags \cup UnsupportedTags
ArgSchemaBranches ==
    {t \in CmdTags : t.name = "port"} \cup {t \in BranchArgTags : t.dflt = ""}
NextArgs == Step(ArgSchemaLeaves, ArgSchemaBranches)
SpecArgs == Init /\ [][NextArgs]_vars

-----------------------------------------------------------------------------
\* The compiled tree.

NodeIds == 1 .. Len(nodes)

Range(seq) == {seq[i] : i \in DOMAIN seq}

RECURSIVE AncestorsOrSelf(_)
AncestorsOrSelf(n) ==
    IF n = 0 THEN {} ELSE {n} \cup AncestorsOrSelf(nodes[n].parent)

\* The flags a node's own schema fields declared: build() puts the injected
\* flags in front of the root's.
SchemaFlags(n) ==
    IF n = 1 /\ pc = "done"
    THEN SubSeq(nodes[1].flags, Len(extraFlags) + 1, Len(nodes[1].flags))
    ELSE nodes[n].flags

InjectedNames == {extraFlags[i].name : i \in DOMAIN extraFlags}

StackNodes == {stack[k].node : k \in DOMAIN stack}

Attached(c) == \E p \in NodeIds : c \in Range(nodes[p].children)

-----------------------------------------------------------------------------
\* C1: in a compiled tree, two distinct schema flags of which one's node is
\* the other's node or an ancestor of it have different long names and, when
\* both have one, different short names, whatever the declaration order.
C1_AncestorPathFlagsDistinct ==
    pc = "done" =>
        \A n \in NodeIds : \A m \in AncestorsOrSelf(n) :
            \A i \in DOMAIN SchemaFlags(n) : \A j \in DOMAIN SchemaFlags(m) :
                (n # m \/ i # j) =>
                    /\ SchemaFlags(n)[i].name # SchemaFlags(m)[j].name
                    /\ (SchemaFlags(n)[i].short # NoShort
                        /\ SchemaFlags(m)[j].short # NoShort)
                       => SchemaFlags(n)[i].short # SchemaFlags(m)[j].short

\* C7: no schema flag is accepted under the long name of an injected global
\* flag, so the root's final flag sequence has pairwise distinct long names.
C7_InjectedNamesRejected ==
    /\ \A n \in NodeIds : \A i \in DOMAIN SchemaFlags(n) :
           SchemaFlags(n)[i].name \notin InjectedNames
    /\ pc = "done" =>
           \A i, j \in DOMAIN nodes[1].flags :
               i # j => nodes[1].flags[i].name # nodes[1].flags[j].name

\* C8: in a compiled tree the value at index i of a node's positional
\* sequence has ordinal position i (zero-based), argument branches included.
C8_PositionIsIndex ==
    pc = "done" =>
        \A n \in NodeIds : \A i \in DOMAIN nodes[n].positional :
            nodes[n].positional[i].position = i - 1

-----------------------------------------------------------------------------
\* C2: sibling branches may declare flags of the same long and short name.
\* While the tree is being built every registered key is a seeded one or
\* the key of a flag of a node on the current path, so no finished branch
\* leaves a name behind for its siblings; and a duplicate-flag error always
\* names a key held by the seed or by a flag of the path.
PathKeys ==
    UNION {FlagKeys(f) : f \in UNION {Range(nodes[n].flags) : n \in StackNodes}}

C2_SiblingBranchesMayReuseFlagNames ==
    /\ pc = "building" => seenFlags \subseteq SeedSeenFlags(extraFlags) \cup PathKeys
    /\ err.msg \in {MsgDupLong, MsgDupShort} =>
           err.arg \in SeedSeenFlags(extraFlags) \cup PathKeys

\* Two sibling commands, each owning its flag --port/-p, in a compiled tree.
C2_Witness ==
    /\ pc = "done"
    /\ \E a, b \in Range(nodes[1].children) :
           /\ a # b
           /\ [name |-> "port", short |-> "p"] \in Range(nodes[a].flags)
           /\ [name |-> "port", short |-> "p"] \in Range(nodes[b].flags)

\* C9: when buildNode returns a node, seenFlags holds exactly the keys it
\* held when that invocation started.
C9_SeenFlagsRestoredOnReturn ==
    \A n \in NodeIds : nodes[n].built => nodes[n].endSeen = nodes[n].startSeen

\* A returned command whose child declared a flag, under injected flags and
\* a flag of the root registered before the command was built.
C9_Witness ==
    \E n \in NodeIds :
        /\ nodes[n].built
        /\ nodes[n].parent = 1
        /\ LongKey("port") \in nodes[n].startSeen
        /\ SeedSeenFlags(extraFlags) # {}
        /\ \E c \in Range(nodes[n].children) : nodes[c].flags # << >>

\* C3: in a compiled tree every node has no children or no positionals.
C3_ChildrenXorPositionals ==
    pc = "done" =>
        \A n \in NodeIds :
            Len(nodes[n].children) = 0 \/ Len(nodes[n].positional) = 0

\* A compiled tree with an argument branch that has a child: its only
\* positional was promoted.
C3_Witness ==
    /\ pc = "done"
    /\ \E n \in NodeIds :
           /\ nodes[n].typ = "ArgumentNode"
           /\ nodes[n].argument # << >>
           /\ nodes[n].children # << >>

\* C4: the ordering check of a node fails exactly when, among the
\* positionals the node collected, an optional one precedes a required one.
OptionalBeforeRequired(pos) ==
    \E i, j \in DOMAIN pos : i < j /\ ~pos[i].required /\ pos[j].required

C4_OrderingErrorIffOptionalBeforeRequired ==
    \A n \in NodeIds :
        /\ nodes[n].built => ~OptionalBeforeRequired(nodes[n].collected)
        /\ (err.msg = MsgOrder /\ err.node = n) =>
               OptionalBeforeRequired(nodes[n].collected)

\* The ordering error on optional, optional, required.
C4_Witness ==
    /\ err.msg = MsgOrder
    /\ Len(nodes[err.node].collected) = 3
    /\ ~nodes[err.node].collected[1].required
    /\ ~nodes[err.node].collected[2].required

\* C5: an attached argument branch had a first positional of the branch's
\* name, which is now its argument and no longer among its positionals, the
\* others following in their order; the two errors arise only without a
\* positional and on a first positional of another name.
C5_BranchArgumentPromoted ==
    /\ \A c \in NodeIds :
           (nodes[c].typ = "ArgumentNode" /\ Attached(c)) =>
               LET all == AssignPositions(nodes[c].collected) IN
               /\ Len(all) > 0
               /\ all[1].name = nodes[c].name
               /\ nodes[c].argument = <<all[1]>>
               /\ nodes[c].positional = [i \in 1 .. Len(all) - 1 |-> all[i + 1]]
               /\ all[1] \notin Range(nodes[c].positional)
    /\ err.msg = MsgNoPositional => nodes[Top].collected = << >>
    /\ err.msg = MsgFirstName =>
           /\ nodes[Top].collected # << >>
           /\ nodes[Top].collected[1].name # err.arg

\* An attached argument branch that collected three positionals.
C5_Witness ==
    \E c \in NodeIds :
        /\ nodes[c].typ = "ArgumentNode"
        /\ Attached(c)
        /\ Len(nodes[c].collected) = 3
        /\ pc = "done"

\* C6: at most one child of a node comes from a command field marked
\* default, the node's default command is that child, and a default child
\* not marked withargs has neither children nor positionals.
DefaultChildren(p) ==
    {c \in Range(nodes[p].children) :
        ~nodes[c].tag.arg /\ nodes[c].tag.dflt # ""}

C6_SingleDefaultCommand ==
    /\ \A p \in NodeIds :
           /\ Cardinality(DefaultChildren(p)) <= 1
           /\ DefaultChildren(p) = {} => nodes[p].defaultCmd = 0
           /\ \A c \in DefaultChildren(p) :
                  /\ nodes[p].defaultCmd = c
                  /\ nodes[c].tag.dflt # "withargs" =>
                         /\ nodes[c].children = << >>
                         /\ nodes[c].positional = << >>
    /\ err.msg = MsgTwoDefaults => DefaultChildren(err.node) # {}

\* A compiled node with two commands, one of them its default, marked
\* withargs and carrying a positional.
C6_Witness ==
    /\ pc = "done"
    /\ \E p \in NodeIds : \E c \in DefaultChildren(p) :
           /\ Len(nodes[p].children) = 2
           /\ nodes[c].tag.dflt = "withargs"
           /\ nodes[c].positional # << >>

-----------------------------------------------------------------------------
\* flattenedFields() over one structure, run up to MaxCompiles times.
\*
\* A field is its tag (ignored, cmd, embed) and whether its type is a
\* pointer.  slots[i] is what field i's storage holds: Inline for a field
\* that is no pointer, Nil for a nil pointer, else the structure instance
\* the pointer refers to.  Embedded fields are tagged embed, and an embedded
\* structure has leaf fields only.

Nil == 0
Inline == -1

FieldShapes ==
    {[ignored |-> FALSE, cmd |-> c, embed |-> e, ptr |-> p] :
        <<c, e, p>> \in {<<TRUE, FALSE, TRUE>>, <<FALSE, TRUE, TRUE>>,
                         <<FALSE, FALSE, TRUE>>, <<TRUE, FALSE, FALSE>>,
                         <<FALSE, TRUE, FALSE>>, <<FALSE, FALSE, FALSE>>}}
    \cup {[ignored |-> TRUE, cmd |-> TRUE, embed |-> FALSE, ptr |-> TRUE]}

\* The test that guards the hydration.
Hydrates(f) == (f.cmd \/ f.embed) /\ f.ptr

\* The structures of up to MaxFlatFields fields, each pointer nil or
\* referring to an instance of its own.
FlatInputs ==
    UNION {[1 .. n -> FieldShapes \X BOOLEAN] : n \in 1 .. MaxFlatFields}

InitFlatten ==
    /\ pc = "idle"
    /\ extraFlags = << >> /\ seenFlags = {} /\ nodes = << >>
    /\ stack = << >> /\ err = NoErr /\ nfields = 0
    /\ \E in \in FlatInputs :
           /\ fields = [i \in DOMAIN in |-> in[i][1]]
           /\ slots = [i \in DOMAIN in |->
                          IF ~in[i][1].ptr THEN Inline
                          ELSE IF in[i][2] THEN i ELSE Nil]
           /\ nextInst = Len(in) + 1
    /\ slots0 = slots
    /\ fidx = 0 /\ out = << >> /\ runs = 0

\* flattenedFields is called on the structure.
flattenStart ==
    /\ pc = "idle"
    /\ runs < MaxCompiles
    /\ pc' = "flatten"
    /\ fidx' = 0
    /\ out' = << >>
    /\ slots0' = slots
    /\ UNCHANGED <<fields, slots, nextInst, runs>>
    /\ UNCHANGED <<extraFlags, seenFlags, nodes, stack, err, nfields>>

\* One iteration of the loop over the structure's fields.
flattenField ==
    /\ pc = "flatten"
    /\ fidx < Len(fields)
    /\ fidx' = fidx + 1
    /\ LET i == fidx + 1
           f == fields[i]
       IN  IF f.ignored THEN UNCHANGED <<slots, nextInst, out>>
           ELSE /\ IF Hydrates(f)
                   THEN /\ slots' = [slots EXCEPT ![i] = nextInst]
                        /\ nextInst' = nextInst + 1
                   ELSE UNCHANGED <<slots, nextInst>>
                /\ out' = Append(out, [field |-> i, embedded |-> f.embed,
                                       value |-> slots'[i]])
    /\ UNCHANGED <<pc, fields, slots0, runs>>
    /\ UNCHANGED <<extraFlags, seenFlags, nodes, stack, err, nfields>>

\* The loop is over: flattenedFields returns out.
flattenReturn ==
    /\ pc = "flatten"
    /\ fidx = Len(fields)
    /\ pc' = "idle"
    /\ runs' = runs + 1
    /\ UNCHANGED <<fields, slots, slots0, nextInst, fidx, out>>
    /\ UNCHANGED <<extraFlags, seenFlags, nodes, stack, err, nfields>>

NextFlatten ==
    \/ flattenStart
    \/ flattenField
    \/ flattenReturn

SpecFlatten == InitFlatten /\ [][NextFlatten]_vars

\* C10: flattening attaches a fresh structure to a cmd or embed pointer
\* only when it is nil: a reference present before a run still refers to
\* the same instance after it, also on a second run over the same root.
C10_PresentReferenceKept ==
    (pc = "idle" /\ runs >= 1) =>
        \A i \in DOMAIN fields :
            (~fields[i].ignored /\ Hydrates(fields[i]) /\ slots0[i] # Nil) =>
                slots[i] = slots0[i]

=============================================================================
